---- MODULE Spec2Model ----
(***************************************************************************)
(* Job orchestration and state persistence of the shorts bot:              *)
(*   db.js            the three SQLite tables and their operations         *)
(*   workflow/runner  runCreateShorts, the stage pipeline of one job       *)
(*   oauth/google.js  getAuthorizedClient, the credential check            *)
(*   server.js        the notify callback handed to runCreateShorts        *)
(***************************************************************************)
EXTENDS Integers, Sequences, FiniteSets, TLC

VARIABLES
  oauth_tokens,   \* table oauth_tokens: telegram_user_id -> row
  oauth_states,   \* table oauth_states: state -> row
  jobs,           \* table jobs: id -> row
  now,            \* Date.now()
  pc,             \* per run of runCreateShorts: position in the function
  run,            \* per run: its arguments and locals
  observed,       \* per run: payloads notify was invoked with, in order
  invoked,        \* per run: collaborators invoked, in order
  written,        \* per run: status values written to its ledger row, in order
  stateAudit,     \* per state token: who began the flow, what consumeState returned since
  tokenAudit,     \* per owner: what the upsertToken calls since the last delete supplied
  jobAudit,       \* per job id: what the direct createJob / updateJobStatus calls did
  issued,         \* the state values crypto.randomBytes has produced for createAuthUrl
  cb              \* per /oauth2/callback request: position in handleOAuthCallback, locals

vars == <<oauth_tokens, oauth_states, jobs, now, pc, run, observed, invoked, written,
          stateAudit, tokenAudit, jobAudit, issued, cb>>

dbVars == <<oauth_tokens, oauth_states, jobs>>
runVars == <<pc, run, observed, invoked, written>>
auditVars == <<stateAudit, tokenAudit, jobAudit>>
oauthVars == <<issued, cb>>

----------------------------------------------------------------------------
(* Bounds of the model *)

MaxClock == 2        \* Date.now() ranges over 0..MaxClock

----------------------------------------------------------------------------
(* JavaScript and SQL values *)

NULL == "NULL"                \* SQL NULL / JS null
Undefined == "undefined"      \* JS undefined: a property the caller did not supply

\* JS truthiness of a string-or-missing value, as used by `x || y`
Falsy(x) == x = Undefined \/ x = NULL \/ x = ""

\* JS `x || y`
OrElse(x, y) == IF Falsy(x) THEN y ELSE x

\* Destructuring default `{ f = null } = extra`: only undefined takes the default
DefaultNull(x) == IF x = Undefined THEN NULL ELSE x

\* SQL COALESCE(a, b)
COALESCE(a, b) == IF a # NULL THEN a ELSE b

\* a table without rows
EmptyTable == [k \in {} |-> NULL]

\* String(telegramUserId): ids arrive as numbers from the bot
Str(n) == ToString(n)

UserIds == {1, 2}
AccessTokens == {"a1", "a2"}
RefreshTokens == {"r1", "r2"}
Scopes == {"s1"}
TokenTypes == {"Bearer", "MAC"}
Expiries == {"e1"}

\* the token objects upsertToken is called with
TokenInputs ==
  [access_token : AccessTokens,
   refresh_token : RefreshTokens \cup {Undefined, ""},
   scope : Scopes \cup {Undefined},
   token_type : TokenTypes \cup {Undefined},
   expiry_date : Expiries \cup {Undefined}]

StateTokens == {"st1", "st2"}

JobIds == {"j1", "j2"}
CallbackIds == {"c1", "c2"}
Urls == {"https://video/x"}
VideoIds == {"v1", "v2"}

----------------------------------------------------------------------------
(* db.js: oauth_tokens *)

\* the row the INSERT of upsertToken proposes (`excluded` in the ON CONFLICT clause)
ExcludedRow(telegramUserId, token) ==
  [telegram_user_id |-> Str(telegramUserId),
   access_token |-> token.access_token,
   refresh_token |-> OrElse(token.refresh_token, NULL),
   scope |-> OrElse(token.scope, NULL),
   token_type |-> OrElse(token.token_type, "Bearer"),
   expiry_date |-> OrElse(token.expiry_date, NULL)]

\* (mutation) the refresh_token is overwritten like the other columns
MergeRefreshOverwrites(excluded, old) == excluded

\* refresh_token=COALESCE(excluded.refresh_token, oauth_tokens.refresh_token)
MergeRefresh(excluded, old) == COALESCE(excluded, old)

upsertToken(table, telegramUserId, token) ==
  LET ex == ExcludedRow(telegramUserId, token)
      key == Str(telegramUserId)
  IN IF key \in DOMAIN table
       THEN [table EXCEPT ![key] =
               [ex EXCEPT !.refresh_token =
                   MergeRefresh(ex.refresh_token, table[key].refresh_token)]]
       ELSE [k \in DOMAIN table \cup {key} |-> IF k = key THEN ex ELSE table[k]]

\* row || null: <<row>>, or <<>> for null
getToken(table, telegramUserId) ==
  IF Str(telegramUserId) \in DOMAIN table THEN <<table[Str(telegramUserId)]>> ELSE <<>>

deleteToken(table, telegramUserId) ==
  [k \in DOMAIN table \ {Str(telegramUserId)} |-> table[k]]

----------------------------------------------------------------------------
(* db.js: oauth_states *)

\* INSERT INTO oauth_states: state is the PRIMARY KEY, a second insert of a
\* state still in the table throws and changes nothing
createState(table, telegramUserId, state, t) ==
  IF state \in DOMAIN table
    THEN [table |-> table, threw |-> TRUE]
    ELSE [table |-> [k \in DOMAIN table \cup {state} |->
                       IF k = state
                         THEN [state |-> state,
                               telegram_user_id |-> Str(telegramUserId),
                               created_at |-> t]
                         ELSE table[k]],
          threw |-> FALSE]

\* (mutation) DELETE FROM oauth_states WHERE telegram_user_id = ?, bound to the
\* state: the rows of that owner are deleted, not the row of the state
StatesAfterConsumeByOwner(table, state) ==
  [k \in {x \in DOMAIN table : table[x].telegram_user_id # state} |-> table[k]]

\* (mutation) consumeState reads the row and leaves it in the table
StatesKept(table, state) == table

\* the table after consumeState: the row, if any, is deleted
StatesAfterConsume(table, state) ==
  [k \in DOMAIN table \ {state} |-> table[k]]

\* (mutation) SELECT * FROM oauth_states without the WHERE clause: any stored row
\* is returned, the DELETE is that of the state asked for
consumeStateAnyRow(table, state) ==
  IF DOMAIN table # {}
    THEN [table |-> [k \in DOMAIN table \ {state} |-> table[k]],
          row |-> <<table[CHOOSE k \in DOMAIN table : TRUE]>>]
    ELSE [table |-> table, row |-> <<>>]

\* (mutation) consumeState returns the row it found and does not delete it
consumeStateKeepsRow(table, state) ==
  IF state \in DOMAIN table
    THEN [table |-> table, row |-> <<table[state]>>]
    ELSE [table |-> table, row |-> <<>>]

\* SELECT, then DELETE if a row was found; returns row || null (<<row>> or <<>>)
consumeState(table, state) ==
  IF state \in DOMAIN table
    THEN [table |-> StatesAfterConsume(table, state), row |-> <<table[state]>>]
    ELSE [table |-> table, row |-> <<>>]

----------------------------------------------------------------------------
(* db.js: jobs *)

\* the row INSERT INTO jobs writes: both timestamps are the same Date.now()
NewJobRow(job, t) ==
  [id |-> job.id,
   telegram_user_id |-> Str(job.telegram_user_id),
   source_url |-> job.source_url,
   status |-> job.status,
   created_at |-> t,
   updated_at |-> t,
   video_id |-> NULL,
   error |-> NULL]

\* (mutation) INSERT OR REPLACE: an existing id is overwritten without an error
createJobReplaces(table, job, t) ==
  [table |-> [k \in DOMAIN table \cup {job.id} |->
                IF k = job.id THEN NewJobRow(job, t) ELSE table[k]],
   threw |-> FALSE]

\* INSERT INTO jobs: id is the PRIMARY KEY, an insert of an id already in the table
\* throws (SQLITE_CONSTRAINT_PRIMARYKEY) and changes nothing
createJob(table, job, t) ==
  IF job.id \in DOMAIN table
    THEN [table |-> table, threw |-> TRUE]
    ELSE [table |-> [k \in DOMAIN table \cup {job.id} |->
                       IF k = job.id THEN NewJobRow(job, t) ELSE table[k]],
          threw |-> FALSE]

\* (mutation) video_id = ?, overwritten like error
SetVideoIdOverwrites(supplied, old) == supplied

\* (mutation) the video_id of the call is dropped
SetVideoIdKeepsOld(supplied, old) == old

\* video_id = COALESCE(?, video_id)
SetVideoId(supplied, old) == COALESCE(supplied, old)

\* error = ?
SetError(supplied, old) == supplied

\* (mutation) UPDATE jobs SET ... without the WHERE clause: every row is updated
updateJobStatusAllRows(table, id, status, extra, t) ==
  [k \in DOMAIN table |->
     [table[k] EXCEPT !.status = status,
                      !.updated_at = t,
                      !.video_id = COALESCE(DefaultNull(extra.video_id), @),
                      !.error = DefaultNull(extra.error)]]

\* (mutation) UPDATE jobs SET updated_at, video_id, error: the status is left out
updateJobStatusKeepsStatus(table, id, status, extra, t) ==
  IF id \in DOMAIN table
    THEN [table EXCEPT ![id] =
            [@ EXCEPT !.updated_at = t,
                      !.video_id = COALESCE(DefaultNull(extra.video_id), @),
                      !.error = DefaultNull(extra.error)]]
    ELSE table

\* UPDATE jobs SET ... WHERE id = ?  (no row: nothing is updated)
\* extra is [video_id, error], each Undefined when the caller leaves it out
updateJobStatus(table, id, status, extra, t) ==
  IF id \in DOMAIN table
    THEN [table EXCEPT ![id] =
            [@ EXCEPT !.status = status,
                      !.updated_at = t,
                      !.video_id = SetVideoId(DefaultNull(extra.video_id), @),
                      !.error = SetError(DefaultNull(extra.error), @)]]
    ELSE table

NoExtra == [video_id |-> Undefined, error |-> Undefined]

\* (mutation) SELECT * FROM jobs WHERE telegram_user_id = ?
getJobByOwner(table, id) ==
  IF \E k \in DOMAIN table : table[k].telegram_user_id = id
    THEN <<table[CHOOSE k \in DOMAIN table : table[k].telegram_user_id = id]>>
    ELSE <<>>

\* SELECT * FROM jobs WHERE id = ?  (<<row>>, or <<>> for undefined: no such row)
getJob(table, id) == IF id \in DOMAIN table THEN <<table[id]>> ELSE <<>>

\* server.js, GET /jobs/:id: the row as JSON, or 404 { error: 'Not found' }
JobsRoute(table, id) ==
  LET job == getJob(table, id)
  IN IF job = <<>>
       THEN [code |-> 404, body |-> <<>>, error |-> "Not found"]
       ELSE [code |-> 200, body |-> job, error |-> ""]

----------------------------------------------------------------------------
(* oauth/google.js: the credential check *)

\* getAuthorizedClient: null (<<>>) when the owner has no token row, otherwise
\* a client carrying the stored credentials
getAuthorizedClient(tokens, telegramUserId) ==
  LET token == getToken(tokens, telegramUserId)
  IN IF token = <<>>
       THEN <<>>
       ELSE <<[access_token |-> token[1].access_token,
               refresh_token |-> token[1].refresh_token,
               scope |-> token[1].scope,
               token_type |-> token[1].token_type,
               expiry_date |-> token[1].expiry_date]>>

----------------------------------------------------------------------------
(* workflow/runner.js: runCreateShorts *)

\* the status each step(...) call writes, in the order of the calls
StageNames == <<"downloading", "processing", "audio_extract", "transcribing", "uploading">>

\* the collaborator each step(...) call runs
Collaborators == <<"downloadVideo", "trimAndFormat", "extractAudio", "transcribeToSrt",
                   "uploadVideoWithCaptions">>

NumStages == Len(StageNames)

\* the step after which getAuthorizedClient is called (the last one before 'uploading')
AuthAfter == NumStages - 1

\* Values a callee can throw: an Error object (message m, String(err) = "Error: m") or
\* a bare string s (no message property, String(err) = s)
ErrorObject(m, s) == [message |-> m, str |-> s]

CollabErrors(k) ==
  {ErrorObject(Collaborators[k], "Error"), ErrorObject(Undefined, "timeout")}

NotifyError == ErrorObject("sendMessage failed", "Error")

NotLinkedMessage == "Google not linked. Use the dashboard to connect your YouTube."
NotLinkedError == ErrorObject(NotLinkedMessage, "Error")

\* (mutation) String(err)
ErrTextOfString(err) == err.str

\* String(err?.message || err)
ErrText(err) == OrElse(err.message, err.str)

\* the three kinds of notify argument: none (undefined), the callback server.js passes
\* (sendMessage inside try/catch), any other callback (may throw)
NotifyKinds == {"none", "server", "other"}

\* the arguments and locals of a run, and a record of what its callees did:
\*   err         the value caught by catch (err), <<>> while none
\*   rejection   the value runCreateShorts rejects with, <<>> while none
\*   tokenAtAuth <<getToken's result>> once getAuthorizedClient has run
\*   collabFailure <<[stage, error]>> once a collaborator has thrown
\*   sendFailed  the server.js callback swallowed a sendMessage failure
\*   inFlight    the collaborators called and not yet settled
IdleRun ==
  [telegramUserId |-> 0, url |-> "", notify |-> "none", stage |-> 0,
   err |-> <<>>, rejection |-> <<>>, client |-> <<>>, videoId |-> NULL,
   tokenAtAuth |-> <<>>, collabFailure |-> <<>>, sendFailed |-> FALSE,
   inFlight |-> {}]

\* Date.now() advances
Tick ==
  /\ now < MaxClock
  /\ now' = now + 1
  /\ UNCHANGED <<dbVars, runVars, auditVars, oauthVars>>

\* lines 11-15: the job id is fresh (randomUUID), the row is created as 'queued'
RunCreateShorts(j, u, url, n) ==
  /\ pc[j] = "idle"
  /\ LET r == createJob(jobs, [id |-> j, telegram_user_id |-> u, source_url |-> url,
                               status |-> "queued"], now)
     IN /\ ~r.threw
        /\ jobs' = r.table
  /\ run' = [run EXCEPT ![j] = [IdleRun EXCEPT !.telegramUserId = u, !.url = url,
                                               !.notify = n, !.stage = 1]]
  /\ written' = [written EXCEPT ![j] = <<"queued">>]
  /\ pc' = [pc EXCEPT ![j] = "update"]
  /\ UNCHANGED <<oauth_tokens, oauth_states, now, observed, invoked, auditVars, oauthVars>>

\* where control goes after a ledger write: to the notify call if there is a callback
AfterWrite(n, withNotify, without) == IF n # "none" THEN withNotify ELSE without

\* step, line 18: updateJobStatus(jobId, status)
StepUpdate(j) ==
  /\ pc[j] = "update"
  /\ jobs' = updateJobStatus(jobs, j, StageNames[run[j].stage], NoExtra, now)
  /\ written' = [written EXCEPT ![j] = Append(@, StageNames[run[j].stage])]
  /\ pc' = [pc EXCEPT ![j] = AfterWrite(run[j].notify, "notify", "call")]
  /\ UNCHANGED <<oauth_tokens, oauth_states, now, run, observed, invoked, auditVars, oauthVars>>

\* notify(payload) is called
NotifyCalled(j, at, payload, to) ==
  /\ pc[j] = at
  /\ observed' = [observed EXCEPT ![j] = Append(@, payload)]
  /\ pc' = [pc EXCEPT ![j] = to]
  /\ UNCHANGED <<dbVars, now, run, invoked, written, auditVars, oauthVars>>

\* the awaited notify promise resolves; in the server.js callback the message may
\* have failed to send, which its try/catch swallows
NotifyResolved(j, at, to) ==
  /\ pc[j] = at
  /\ \E failed \in (IF run[j].notify = "server" THEN BOOLEAN ELSE {FALSE}) :
       run' = [run EXCEPT ![j].sendFailed = @ \/ failed]
  /\ pc' = [pc EXCEPT ![j] = to]
  /\ UNCHANGED <<dbVars, now, observed, invoked, written, auditVars, oauthVars>>

\* the awaited notify promise rejects: only a callback that lets its error out
NotifyRejected(j, at, to) ==
  /\ pc[j] = at
  /\ run[j].notify = "other"
  /\ run' = IF to = "rejected"
              THEN [run EXCEPT ![j].rejection = <<NotifyError>>]
              ELSE [run EXCEPT ![j].err = <<NotifyError>>]
  /\ pc' = [pc EXCEPT ![j] = to]
  /\ UNCHANGED <<dbVars, now, observed, invoked, written, auditVars, oauthVars>>

\* step, line 19: if (notify) await notify(status)
StepNotify(j) ==
  /\ pc[j] = "notify"
  /\ NotifyCalled(j, "notify", <<StageNames[run[j].stage]>>, "notifying")
StepNotifyOk(j) ==
  /\ pc[j] = "notifying"
  /\ NotifyResolved(j, "notifying", "call")
StepNotifyThrows(j) ==
  /\ pc[j] = "notifying"
  /\ NotifyRejected(j, "notifying", "catch")

\* step, line 20: return fn(), the stage's collaborator is started
CollabCall(j) ==
  /\ pc[j] = "call"
  /\ invoked' = [invoked EXCEPT ![j] = Append(@, Collaborators[run[j].stage])]
  /\ run' = [run EXCEPT ![j].inFlight = @ \cup {Collaborators[run[j].stage]}]
  /\ pc' = [pc EXCEPT ![j] = "running"]
  /\ UNCHANGED <<dbVars, now, observed, written, auditVars, oauthVars>>

\* (mutation) after the upload has returned nothing records the completion
AfterStageNoCompletion(k) ==
  IF k = NumStages THEN "uploaded" ELSE IF k = AuthAfter THEN "auth" ELSE "update"

\* where control goes when the collaborator of stage k has returned
AfterStage(k) ==
  IF k = NumStages THEN "complete" ELSE IF k = AuthAfter THEN "auth" ELSE "update"

\* (mutation) a stage that returned is run again
NextStageRetries(k) == k

\* (mutation) the await chain goes from the download straight to the audio extraction
NextStageSkipsOne(k) == IF k = 1 THEN 3 ELSE k + 1

\* the stage after stage k in the await chain of lines 24-34
NextStage(k) == k + 1

\* lines 24-27, 34: the awaited collaborator returns; the upload returns the video id
CollabReturn(j) ==
  /\ pc[j] = "running"
  /\ LET k == run[j].stage
     IN /\ \E v \in (IF k = NumStages THEN VideoIds ELSE {NULL}) :
             run' = [run EXCEPT ![j].videoId = v,
                                ![j].inFlight = @ \ {Collaborators[k]},
                                ![j].stage = IF AfterStage(k) = "update"
                                               THEN NextStage(k) ELSE k]
        /\ pc' = [pc EXCEPT ![j] = AfterStage(k)]
  /\ UNCHANGED <<dbVars, now, observed, invoked, written, auditVars, oauthVars>>

\* lines 24-27, 34: the awaited collaborator throws, control goes to the catch block
CollabThrows(j) ==
  /\ pc[j] = "running"
  /\ \E e \in CollabErrors(run[j].stage) :
       run' = [run EXCEPT ![j].err = <<e>>,
                          ![j].inFlight = @ \ {Collaborators[run[j].stage]},
                          ![j].collabFailure = <<[stage |-> run[j].stage, error |-> e]>>]
  /\ pc' = [pc EXCEPT ![j] = "catch"]
  /\ UNCHANGED <<dbVars, now, observed, invoked, written, auditVars, oauthVars>>

\* (mutation) the missing client is not checked
MissingClientIgnored(client) == <<>>

\* the error thrown when there is no client (line 31), none otherwise
MissingClient(client) == IF client = <<>> THEN <<NotLinkedError>> ELSE <<>>

\* lines 29-32: getAuthorizedClient, throw when there is none
Authorize(j) ==
  /\ pc[j] = "auth"
  /\ LET client == getAuthorizedClient(oauth_tokens, run[j].telegramUserId)
         thrown == MissingClient(client)
     IN /\ run' = [run EXCEPT ![j].client = client,
                              ![j].tokenAtAuth = <<getToken(oauth_tokens, run[j].telegramUserId)>>,
                              ![j].err = thrown,
                              ![j].stage = IF thrown = <<>> THEN NextStage(@) ELSE @]
        /\ pc' = [pc EXCEPT ![j] = IF thrown = <<>> THEN "update" ELSE "catch"]
  /\ UNCHANGED <<dbVars, now, observed, invoked, written, auditVars, oauthVars>>

\* line 43: updateJobStatus(jobId, 'completed', { video_id: videoId })
Complete(j) ==
  /\ pc[j] = "complete"
  /\ jobs' = updateJobStatus(jobs, j, "completed",
                             [video_id |-> run[j].videoId, error |-> Undefined], now)
  /\ written' = [written EXCEPT ![j] = Append(@, "completed")]
  /\ pc' = [pc EXCEPT ![j] = AfterWrite(run[j].notify, "notifyCompleted", "returned")]
  /\ UNCHANGED <<oauth_tokens, oauth_states, now, run, observed, invoked, auditVars, oauthVars>>

\* line 44: if (notify) await notify('completed'), still inside the try block
NotifyCompleted(j) ==
  /\ pc[j] = "notifyCompleted"
  /\ NotifyCalled(j, "notifyCompleted", <<"completed">>, "notifyingCompleted")
NotifyCompletedOk(j) ==
  /\ pc[j] = "notifyingCompleted"
  /\ NotifyResolved(j, "notifyingCompleted", "returned")
NotifyCompletedThrows(j) ==
  /\ pc[j] = "notifyingCompleted"
  /\ NotifyRejected(j, "notifyingCompleted", "catch")

\* line 46: updateJobStatus(jobId, 'failed', { error: String(err?.message || err) })
Catch(j) ==
  /\ pc[j] = "catch"
  /\ jobs' = updateJobStatus(jobs, j, "failed",
                             [video_id |-> Undefined, error |-> ErrText(run[j].err[1])], now)
  /\ written' = [written EXCEPT ![j] = Append(@, "failed")]
  /\ pc' = [pc EXCEPT ![j] = AfterWrite(run[j].notify, "notifyFailed", "returned")]
  /\ UNCHANGED <<oauth_tokens, oauth_states, now, run, observed, invoked, auditVars, oauthVars>>

\* line 47: if (notify) await notify(`failed: ${err?.message || err}`), inside the
\* catch block: a rejection here rejects runCreateShorts
NotifyFailed(j) ==
  /\ pc[j] = "notifyFailed"
  /\ NotifyCalled(j, "notifyFailed", <<"failed: ", ErrText(run[j].err[1])>>,
                  "notifyingFailed")
NotifyFailedOk(j) ==
  /\ pc[j] = "notifyingFailed"
  /\ NotifyResolved(j, "notifyingFailed", "returned")
NotifyFailedThrows(j) ==
  /\ pc[j] = "notifyingFailed"
  /\ NotifyRejected(j, "notifyingFailed", "rejected")

RunnerStep(j) ==
  \/ \E u \in UserIds, url \in Urls, n \in NotifyKinds : RunCreateShorts(j, u, url, n)
  \/ StepUpdate(j)
  \/ StepNotify(j)
  \/ StepNotifyOk(j)
  \/ StepNotifyThrows(j)
  \/ CollabCall(j)
  \/ CollabReturn(j)
  \/ CollabThrows(j)
  \/ Authorize(j)
  \/ Complete(j)
  \/ NotifyCompleted(j)
  \/ NotifyCompletedOk(j)
  \/ NotifyCompletedThrows(j)
  \/ Catch(j)
  \/ NotifyFailed(j)
  \/ NotifyFailedOk(j)
  \/ NotifyFailedThrows(j)

----------------------------------------------------------------------------
(* The application: jobs submitted to runCreateShorts over a database that may
   already hold credentials *)

\* a credential row as left by an earlier upsertToken
StoredTokens(linked) ==
  [k \in {Str(u) : u \in linked} |->
     [telegram_user_id |-> k, access_token |-> "a1", refresh_token |-> "r1",
      scope |-> "s1", token_type |-> "Bearer", expiry_date |-> "e1"]]

InitAudit ==
  /\ stateAudit = [s \in StateTokens |-> [owner |-> <<>>, calls |-> 0, first |-> <<>>,
                                          later |-> TRUE]]
  /\ tokenAudit = [k \in {Str(u) : u \in UserIds} |-> <<>>]
  /\ jobAudit = [j \in JobIds |-> <<>>]

\* a callback request that has not arrived yet:
\*   state   the state parameter of the request
\*   owner   <<telegram_user_id>> once consumeState has returned a row
\*   linked  <<telegram_user_id>> once upsertToken has been called
\*   error   the message of the error handleOAuthCallback threw, "" while none
IdleCallback == [pc |-> "idle", state |-> "", owner |-> <<>>, linked |-> <<>>,
                 error |-> ""]

InitOAuth ==
  /\ issued = {}
  /\ cb = [c \in CallbackIds |-> IdleCallback]

InitRuns ==
  /\ pc = [j \in JobIds |-> "idle"]
  /\ run = [j \in JobIds |-> IdleRun]
  /\ observed = [j \in JobIds |-> <<>>]
  /\ invoked = [j \in JobIds |-> <<>>]
  /\ written = [j \in JobIds |-> <<>>]

Init ==
  /\ \E linked \in SUBSET UserIds : oauth_tokens = StoredTokens(linked)
  /\ oauth_states = EmptyTable
  /\ jobs = EmptyTable
  /\ now = 0
  /\ InitRuns
  /\ InitAudit
  /\ InitOAuth

\* one submission: the run of job j1
Next ==
  \/ Tick
  \/ RunnerStep("j1")

Spec == Init /\ [][Next]_vars

\* two submissions whose runs interleave at their awaits
NextConc == \E j \in JobIds : RunnerStep(j)

SpecConc == Init /\ [][NextConc]_vars

\* one submission whose awaited calls all settle: a continuation that is ready to
\* run is eventually run by the event loop
SpecLive == Init /\ [][Next]_vars /\ WF_vars(RunnerStep("j1"))

----------------------------------------------------------------------------
(* Claims about runCreateShorts, checked under Spec *)

\* the status values in the order a run writes them
StatusSeq == <<"queued">> \o StageNames \o <<"completed">>

IsPrefix(s, t) == Len(s) <= Len(t) /\ \A i \in 1..Len(s) : s[i] = t[i]

Front(s) == SubSeq(s, 1, Len(s) - 1)

Started(j) == pc[j] # "idle"
Finished(j) == pc[j] \in {"returned", "rejected"}

\* C1: the status values written to a job's row, which are the values a reader of
\* the row sees, start at queued and follow queued, downloading, processing,
\* audio_extract, transcribing, uploading, completed in that order, none skipped
\* or repeated, up to the point where the job is completed or failed
C1_StatusOrder ==
  \A j \in JobIds :
    Started(j) =>
      /\ j \in DOMAIN jobs
      /\ Len(written[j]) >= 1
      /\ written[j][1] = "queued"
      /\ jobs[j].status = written[j][Len(written[j])]
      /\ \/ IsPrefix(written[j], StatusSeq)
         \/ /\ written[j][Len(written[j])] = "failed"
            /\ IsPrefix(Front(written[j]), StatusSeq)

C1_Witness ==
  /\ written["j1"] = StatusSeq
  /\ jobs["j1"].status = "completed"

\* C2: completed and failed are terminal: a row whose status is completed or failed
\* keeps that status in every later step
C2_TerminalStatus ==
  [][\A j \in DOMAIN jobs :
       jobs[j].status \in {"completed", "failed"} => jobs'[j].status = jobs[j].status]_vars

\* C3: video_id is set exactly when the status is completed, error exactly when it
\* is failed, and never both
C3_ResultXorError ==
  \A j \in DOMAIN jobs :
    /\ jobs[j].video_id # NULL <=> jobs[j].status = "completed"
    /\ jobs[j].error # NULL <=> jobs[j].status = "failed"
    /\ ~(jobs[j].video_id # NULL /\ jobs[j].error # NULL)

\* the notifications that carry a status name (a stage or completed), in order
StatusPayloads(j) == SelectSeq(observed[j], LAMBDA p : Len(p) = 1)

\* the error texts a collaborator failure leaves on the ledger
CollabFailureTexts ==
  UNION {{IF e.message # Undefined THEN e.message ELSE e.str : e \in CollabErrors(k)} :
          k \in 1..NumStages}

\* C4: a failure of notify does not abort the job: a job fails only with the error
\* of a collaborator or of the credential check, and every stage that was
\* announced has its collaborator invoked
C4_NotifyFailureHarmless ==
  \A j \in DOMAIN jobs :
    /\ jobs[j].status = "failed" =>
         jobs[j].error \in CollabFailureTexts \cup {NotLinkedMessage}
    /\ (Finished(j) /\ run[j].notify # "none") =>
         Len(invoked[j]) = Len(SelectSeq(StatusPayloads(j), LAMBDA p : p # <<"completed">>))

\* C8: when the first four stages succeeded and the owner has no credential row at
\* the time getAuthorizedClient runs, the upload is never invoked and the job ends
\* failed with the text that tells the owner to link the account
C8_NotLinkedFails ==
  \A j \in JobIds :
    run[j].tokenAtAuth = << <<>> >> =>
      /\ \A i \in 1..Len(invoked[j]) : invoked[j][i] # "uploadVideoWithCaptions"
      /\ \A i \in 1..Len(written[j]) : written[j][i] # "completed"
      /\ Finished(j) =>
           /\ jobs[j].status = "failed"
           /\ jobs[j].error = "Google not linked. Use the dashboard to connect your YouTube."

C8_Witness ==
  /\ run["j1"].tokenAtAuth = << <<>> >>
  /\ Finished("j1")
  /\ invoked["j1"] = SubSeq(Collaborators, 1, 4)

\* C9: when the collaborator of stage k fails, the job ends failed with that
\* failure's message; notify was invoked with the stage names 1..k once each, in
\* order, never with a later stage or completed; no later collaborator is invoked
C9_StageFailure ==
  \A j \in JobIds :
    run[j].collabFailure # <<>> =>
      LET k == run[j].collabFailure[1].stage
          e == run[j].collabFailure[1].error
      IN /\ invoked[j] = SubSeq(Collaborators, 1, k)
         /\ run[j].notify # "none" =>
              StatusPayloads(j) = [i \in 1..k |-> <<StageNames[i]>>]
         /\ run[j].notify = "none" => observed[j] = <<>>
         /\ Finished(j) =>
              /\ jobs[j].status = "failed"
              /\ jobs[j].error = IF e.message # Undefined THEN e.message ELSE e.str

\* the transcription collaborator failed: downloading, processing, audio_extract,
\* transcribing were notified, uploading and completed never
C9_Witness ==
  /\ run["j1"].collabFailure # <<>>
  /\ run["j1"].collabFailure[1].stage = 4
  /\ run["j1"].notify = "other"
  /\ Finished("j1")
  /\ Len(observed["j1"]) = 5

\* C10: when all five collaborators succeeded for a linked owner, the job reaches
\* completed and the stored video_id is the identifier the upload returned
C10_CompletedWithVideoId ==
  \A j \in JobIds :
    (run[j].videoId # NULL /\ pc[j] # "complete") =>
      /\ run[j].tokenAtAuth # << <<>> >>
      /\ \E i \in 1..Len(written[j]) : written[j][i] = "completed"
      /\ jobs[j].video_id = run[j].videoId
      /\ (Finished(j) /\ run[j].notify # "other") => jobs[j].status = "completed"

C10_Witness ==
  /\ Finished("j1")
  /\ invoked["j1"] = Collaborators
  /\ run["j1"].videoId = "v2"
  /\ jobs["j1"].status = "completed"

\* C11: an error raised by a collaborator does not leave runCreateShorts: the run
\* does not reject, and it ends returning the job id with the ledger row failed and
\* its error the stringified message of that error
C11_CollabErrorCaught ==
  \A j \in JobIds :
    run[j].collabFailure # <<>> =>
      /\ pc[j] # "rejected"
      /\ run[j].rejection = <<>>
      /\ pc[j] = "returned" =>
           /\ jobs[j].status = "failed"
           /\ jobs[j].error = ErrText(run[j].collabFailure[1].error)

\* C12: a failure of notify is never raised to the caller of runCreateShorts,
\* whichever notification it was (a stage name, completed, or failed: <message>)
C12_NotifyFailureSwallowed ==
  \A j \in JobIds :
    run[j].notify # "none" => (pc[j] # "rejected" /\ run[j].rejection # <<NotifyError>>)

\* the notifications that end a job: completed, or failed: <message>
TerminalPayloads(j) ==
  SelectSeq(observed[j], LAMBDA p : p = <<"completed">> \/ Len(p) = 2)

\* C13: a job has at most one terminal notification, exactly one once the run is
\* over, either completed or failed: <message>, and the message of a failed
\* notification is the text in the row's error field
C13_OneTerminalNotification ==
  \A j \in JobIds :
    /\ Len(TerminalPayloads(j)) <= 1
    /\ (Finished(j) /\ run[j].notify # "none") => Len(TerminalPayloads(j)) = 1
    /\ \A i \in 1..Len(observed[j]) :
         Len(observed[j][i]) = 2 => observed[j][i][2] = jobs[j].error

\* what run j alone determines of its ledger row: the owner and url it was given,
\* the last status it wrote, the video id its upload returned once completed was
\* written, and the text of the error it caught when the status is failed
OwnOutcome(j) ==
  IF ~Started(j)
    THEN j \notin DOMAIN jobs
    ELSE /\ j \in DOMAIN jobs
         /\ \/ IsPrefix(written[j], StatusSeq)
            \/ /\ written[j][Len(written[j])] = "failed"
               /\ IsPrefix(Front(written[j]), StatusSeq)
         /\ jobs[j].telegram_user_id = Str(run[j].telegramUserId)
         /\ jobs[j].source_url = run[j].url
         /\ jobs[j].status = written[j][Len(written[j])]
         /\ jobs[j].video_id =
              IF \E i \in 1..Len(written[j]) : written[j][i] = "completed"
                THEN run[j].videoId ELSE NULL
         /\ jobs[j].error =
              IF jobs[j].status = "failed" THEN ErrText(run[j].err[1]) ELSE NULL

\* a step that is not a step of run j leaves the row and the run of job j alone
LeavesAlone(j) ==
  /\ (j \in DOMAIN jobs) = (j \in DOMAIN jobs')
  /\ j \in DOMAIN jobs => jobs'[j] = jobs[j]
  /\ run'[j] = run[j]
  /\ written'[j] = written[j]
  /\ observed'[j] = observed[j]
  /\ invoked'[j] = invoked[j]

\* C14: when two runs interleave, a step of one run changes neither the row nor
\* the progress of the other job, and each job's row is at all times what its own
\* run wrote: its statuses in the order of a single run, its own video_id or error
C14_RunsIsolated ==
  [][/\ \A j \in JobIds : pc'[j] = pc[j] => LeavesAlone(j)
     /\ \A j \in JobIds : OwnOutcome(j)']_vars

\* both runs are under way at different stages: one uploads while the other has
\* failed in its first stage and is telling its observer
C14_Witness ==
  /\ pc["j1"] = "running"
  /\ jobs["j1"].status = "uploading"
  /\ pc["j2"] = "notifyingFailed"
  /\ jobs["j2"].status = "failed"
  /\ invoked["j2"] = <<"downloadVideo">>
  /\ jobs["j1"].telegram_user_id = jobs["j2"].telegram_user_id

\* the statuses a ledger row can hold
JobStatuses == {"queued", "completed", "failed"} \cup {StageNames[i] : i \in 1..NumStages}

\* C16: from the creation of its row on, before any notification and any
\* collaborator call, getJob(id) and GET /jobs/:id return the job in every state;
\* for an id never created they return not-found, which is no job status
C16_JobAlwaysPollable ==
  \A j \in JobIds :
    /\ Started(j) =>
         /\ getJob(jobs, j) # <<>>
         /\ getJob(jobs, j)[1].id = j
         /\ getJob(jobs, j)[1].status \in JobStatuses
         /\ JobsRoute(jobs, j).code = 200
         /\ JobsRoute(jobs, j).body = <<jobs[j]>>
    /\ (observed[j] # <<>> \/ invoked[j] # <<>>) => getJob(jobs, j) # <<>>
    /\ ~Started(j) =>
         /\ getJob(jobs, j) = <<>>
         /\ JobsRoute(jobs, j).code = 404
         /\ JobsRoute(jobs, j).error \notin JobStatuses

\* the job is polled while its first notification is in flight, before any
\* collaborator was invoked; the id of no job gives not-found
C16_Witness ==
  /\ pc["j1"] = "notifying"
  /\ invoked["j1"] = <<>>
  /\ JobsRoute(jobs, "j1").code = 200
  /\ JobsRoute(jobs, "j1").body[1].status = "downloading"
  /\ JobsRoute(jobs, "j2").code = 404

\* a notify call of run j has not returned yet
NotifyInFlight(j) == pc[j] \in {"notifying", "notifyingCompleted", "notifyingFailed"}

\* C17: when notify is called with a stage name or completed the row's status is
\* already that value, when it is called with failed: <message> the status is
\* already failed; a collaborator is invoked only when no notify call is in flight
\* and, if there is an observer, the last notification was its stage's name
C17_LedgerBeforeObserver ==
  [][\A j \in JobIds :
       /\ observed'[j] # observed[j] =>
            LET p == observed'[j][Len(observed'[j])]
                status == IF Len(p) = 1 THEN p[1] ELSE "failed"
            IN /\ observed'[j] = Append(observed[j], p)
               /\ j \in DOMAIN jobs
               /\ jobs[j].status = status
               /\ jobs'[j].status = status
       /\ invoked'[j] # invoked[j] =>
            LET k == Len(invoked'[j])
            IN /\ ~NotifyInFlight(j)
               /\ jobs[j].status = StageNames[k]
               /\ run[j].notify # "none" =>
                    /\ observed[j] # <<>>
                    /\ observed[j][Len(observed[j])] = <<StageNames[k]>>
    ]_vars

\* the completed notification is in flight and the row already says completed
C17_Witness ==
  /\ pc["j1"] = "notifyingCompleted"
  /\ jobs["j1"].status = "completed"
  /\ observed["j1"][Len(observed["j1"])] = <<"completed">>
  /\ Len(invoked["j1"]) = NumStages

\* C18: within a job each collaborator is invoked at most once and in pipeline
\* order; one is invoked only when none is in flight and none has failed, so the
\* previous one has returned successfully; at most one is in flight at any time
C18_CollaboratorsSequential ==
  [][\A j \in JobIds :
       /\ Cardinality(run'[j].inFlight) <= 1
       /\ IsPrefix(invoked'[j], Collaborators)
       /\ invoked'[j] # invoked[j] =>
            /\ Len(invoked'[j]) = Len(invoked[j]) + 1
            /\ run[j].inFlight = {}
            /\ run[j].collabFailure = <<>>
            /\ run'[j].inFlight = {invoked'[j][Len(invoked'[j])]}
    ]_vars

\* the upload is the only collaborator in flight, after the four before it
C18_Witness ==
  /\ run["j1"].inFlight = {"uploadVideoWithCaptions"}
  /\ invoked["j1"] = Collaborators
  /\ pc["j1"] = "running"

\* C19: when every collaborator call and every notify call settles, a job whose
\* row was created eventually has the status completed or failed
C19_JobTerminates ==
  \A j \in JobIds :
    Started(j) ~> (j \in DOMAIN jobs /\ jobs[j].status \in {"completed", "failed"})

\* a run that was rejected by its last notify call still left the row failed
C19_Witness ==
  /\ pc["j1"] = "rejected"
  /\ jobs["j1"].status = "failed"
  /\ written["j1"] = <<"queued", "downloading", "failed">>

----------------------------------------------------------------------------
(* The db.js operations called directly, in any order, on an empty database *)

InitDb ==
  /\ oauth_tokens = EmptyTable
  /\ oauth_states = EmptyTable
  /\ jobs = EmptyTable
  /\ now = 0
  /\ InitRuns
  /\ InitAudit
  /\ InitOAuth

\* the owner a caller reads off consumeState's result (stateRow.telegram_user_id)
OwnerOf(row) == IF row = <<>> THEN <<>> ELSE <<row[1].telegram_user_id>>

CallCreateState(u, s) ==
  LET r == createState(oauth_states, u, s, now)
  IN /\ oauth_states' = r.table
     /\ stateAudit' = IF r.threw
                        THEN stateAudit
                        ELSE [stateAudit EXCEPT ![s] = [owner |-> <<Str(u)>>, calls |-> 0,
                                                        first |-> <<>>, later |-> TRUE]]
     /\ UNCHANGED <<oauth_tokens, jobs, now, runVars, tokenAudit, jobAudit, oauthVars>>

\* stateAudit[s] keeps, since the last accepted createState of s: the owner it
\* named, the number of consumeState calls (2 stands for two or more), the result
\* of the first of them, and whether every later one returned null
CallConsumeState(s) ==
  LET r == consumeState(oauth_states, s)
      a == stateAudit[s]
  IN /\ oauth_states' = r.table
     /\ stateAudit' = [stateAudit EXCEPT ![s] =
                         [owner |-> a.owner,
                          calls |-> IF a.calls = 0 THEN 1 ELSE 2,
                          first |-> IF a.calls = 0 THEN <<OwnerOf(r.row)>> ELSE a.first,
                          later |-> a.later /\ (a.calls >= 1 => r.row = <<>>)]]
     /\ UNCHANGED <<oauth_tokens, jobs, now, runVars, tokenAudit, jobAudit, oauthVars>>

NextStates ==
  \/ Tick
  \/ \E u \in UserIds, s \in StateTokens : CallCreateState(u, s)
  \/ \E s \in StateTokens : CallConsumeState(s)

SpecStates == InitDb /\ [][NextStates]_vars

\* tokenAudit[owner] keeps, since the owner's row was last absent: the token object
\* of the last upsertToken, the most recent refresh_token that was not null or
\* undefined, and the most recent one that was not empty either
CallUpsertToken(u, token) ==
  LET k == Str(u)
      prev == IF tokenAudit[k] = <<>>
                THEN [nonNull |-> NULL, nonEmpty |-> NULL]
                ELSE [nonNull |-> tokenAudit[k][1].nonNull,
                      nonEmpty |-> tokenAudit[k][1].nonEmpty]
      rt == token.refresh_token
  IN /\ oauth_tokens' = upsertToken(oauth_tokens, u, token)
     /\ tokenAudit' = [tokenAudit EXCEPT ![k] =
                         <<[last |-> token,
                            nonNull |-> IF rt \in {Undefined, NULL} THEN prev.nonNull ELSE rt,
                            nonEmpty |-> IF rt \in {Undefined, NULL, ""}
                                           THEN prev.nonEmpty ELSE rt]>>]
     /\ UNCHANGED <<oauth_states, jobs, now, runVars, stateAudit, jobAudit, oauthVars>>

CallDeleteToken(u) ==
  /\ oauth_tokens' = deleteToken(oauth_tokens, u)
  /\ tokenAudit' = [tokenAudit EXCEPT ![Str(u)] = <<>>]
  /\ UNCHANGED <<oauth_states, jobs, now, runVars, stateAudit, jobAudit, oauthVars>>

NextTokens ==
  \/ \E u \in UserIds, token \in TokenInputs : CallUpsertToken(u, token)
  \/ \E u \in UserIds : CallDeleteToken(u)

SpecTokens == InitDb /\ [][NextTokens]_vars

\* the arguments of the direct createJob and updateJobStatus calls
StatusInputs == {"queued", "completed", "failed"}
ErrorInputs == {"e1"}
ExtraInputs == [video_id : VideoIds \cup {Undefined}, error : ErrorInputs \cup {Undefined}]

CallCreateJob(id, u, url, status) ==
  LET r == createJob(jobs, [id |-> id, telegram_user_id |-> u, source_url |-> url,
                            status |-> status], now)
  IN /\ jobs' = r.table
     /\ jobAudit' = IF r.threw
                      THEN jobAudit
                      ELSE [jobAudit EXCEPT ![id] =
                              <<[last |-> <<>>, sticky |-> TRUE, dup |-> "none"]>>]
     /\ UNCHANGED <<oauth_tokens, oauth_states, now, runVars, stateAudit, tokenAudit, oauthVars>>

\* jobAudit[id] keeps, for an existing row: the extra argument of the last
\* updateJobStatus, and whether every call without a video_id left the stored
\* video_id as it was
CallUpdateJobStatus(id, status, extra) ==
  /\ jobs' = updateJobStatus(jobs, id, status, extra, now)
  /\ jobAudit' = IF id \in DOMAIN jobs
                   THEN [jobAudit EXCEPT ![id] =
                           <<[last |-> <<extra>>,
                              sticky |-> /\ jobAudit[id][1].sticky
                                         /\ extra.video_id = Undefined =>
                                              jobs'[id].video_id = jobs[id].video_id,
                              dup |-> jobAudit[id][1].dup]>>]
                   ELSE jobAudit
  /\ UNCHANGED <<oauth_tokens, oauth_states, now, runVars, stateAudit, tokenAudit, oauthVars>>

NextJobs ==
  \/ Tick
  \/ \E id \in JobIds, u \in UserIds, url \in Urls, status \in StatusInputs :
       CallCreateJob(id, u, url, status)
  \/ \E id \in JobIds, status \in StatusInputs, extra \in ExtraInputs :
       CallUpdateJobStatus(id, status, extra)

SpecJobs == InitDb /\ [][NextJobs]_vars

\* createJob called with an id whose row exists. jobAudit[id].dup tells what such
\* calls did: "none" (no such call yet), "kept" (each threw and left the row as it
\* was), "changed" (one returned normally or altered the row)
CallCreateJobAgain(id, u, url, status) ==
  /\ id \in DOMAIN jobs
  /\ LET r == createJob(jobs, [id |-> id, telegram_user_id |-> u, source_url |-> url,
                               status |-> status], now)
     IN /\ jobs' = r.table
        /\ jobAudit' = [jobAudit EXCEPT ![id] =
                          <<[@[1] EXCEPT !.dup = IF /\ @ # "changed"
                                                    /\ r.threw
                                                    /\ r.table[id] = jobs[id]
                                                   THEN "kept" ELSE "changed"]>>]
  /\ UNCHANGED <<oauth_tokens, oauth_states, now, runVars, stateAudit, tokenAudit, oauthVars>>

\* the life of one ledger row: created, updated, and created again
NextCreate ==
  \/ Tick
  \/ \E u \in UserIds, url \in Urls, status \in StatusInputs :
       CallCreateJob("j1", u, url, status)
  \/ \E u \in UserIds, url \in Urls, status \in StatusInputs :
       CallCreateJobAgain("j1", u, url, status)
  \/ \E status \in StatusInputs, extra \in ExtraInputs :
       CallUpdateJobStatus("j1", status, extra)

SpecCreate == InitDb /\ [][NextCreate]_vars

----------------------------------------------------------------------------
(* oauth/google.js and server.js: the account linking flow. Requests to
   /oauth2/authorize create state tokens; requests to /oauth2/callback run
   handleOAuthCallback, which is synchronous up to its one await *)

\* the token objects the exchange of client.getToken(code) yields
ExchangeTokens ==
  {[access_token |-> "a1", refresh_token |-> "r1", scope |-> "s1",
    token_type |-> "Bearer", expiry_date |-> "e1"],
   [access_token |-> "a2", refresh_token |-> Undefined, scope |-> "s1",
    token_type |-> "Bearer", expiry_date |-> "e1"]}

\* the messages of the errors client.getToken(code) rejects with
ExchangeErrors == {"invalid_grant"}

\* the user id whose String() is the stored telegram_user_id
UserOfKey(k) == CHOOSE u \in UserIds : Str(u) = k

\* GET /oauth2/authorize, createAuthUrl: crypto.randomBytes(16) gives a state no
\* earlier call gave, createState stores it for the user; stateAudit[s].owner
\* keeps the user the state was created for
CreateAuthUrl(u, s) ==
  /\ s \notin issued
  /\ LET r == createState(oauth_states, u, s, now)
     IN /\ ~r.threw
        /\ oauth_states' = r.table
  /\ issued' = issued \cup {s}
  /\ stateAudit' = [stateAudit EXCEPT ![s].owner = <<Str(u)>>]
  /\ UNCHANGED <<oauth_tokens, jobs, now, runVars, tokenAudit, jobAudit, cb>>

\* GET /oauth2/callback, handleOAuthCallback lines 28-35: consumeState, the throw
\* when it found no row, and the start of the token exchange, in one synchronous
\* run; s is whatever the request carries (String(req.query.state || ''))
CallbackArrives(c, s) ==
  /\ cb[c].pc = "idle"
  /\ LET r == consumeState(oauth_states, s)
     IN /\ oauth_states' = r.table
        /\ cb' = [cb EXCEPT ![c] =
                    IF r.row = <<>>
                      THEN [@ EXCEPT !.pc = "failed", !.state = s,
                                     !.error = "Invalid or expired state"]
                      ELSE [@ EXCEPT !.pc = "exchanging", !.state = s,
                                     !.owner = OwnerOf(r.row)]]
  /\ UNCHANGED <<oauth_tokens, jobs, now, runVars, auditVars, issued>>

\* lines 35-38: the exchange resolves with tokens, upsertToken stores them for the
\* owner consumeState returned
CallbackTokens(c, token) ==
  /\ cb[c].pc = "exchanging"
  /\ oauth_tokens' = upsertToken(oauth_tokens, UserOfKey(cb[c].owner[1]), token)
  /\ cb' = [cb EXCEPT ![c].pc = "linked", ![c].linked = cb[c].owner]
  /\ UNCHANGED <<oauth_states, jobs, now, runVars, auditVars, issued>>

\* line 36: the exchange resolves without tokens
CallbackNoTokens(c) ==
  /\ cb[c].pc = "exchanging"
  /\ cb' = [cb EXCEPT ![c].pc = "failed", ![c].error = "No tokens received"]
  /\ UNCHANGED <<dbVars, now, runVars, auditVars, issued>>

\* line 35: the exchange rejects, the error leaves handleOAuthCallback
CallbackExchangeFails(c, e) ==
  /\ cb[c].pc = "exchanging"
  /\ cb' = [cb EXCEPT ![c].pc = "failed", ![c].error = e]
  /\ UNCHANGED <<dbVars, now, runVars, auditVars, issued>>

NextOAuth ==
  \/ \E u \in UserIds, s \in StateTokens : CreateAuthUrl(u, s)
  \/ \E c \in CallbackIds, s \in StateTokens \cup {""} : CallbackArrives(c, s)
  \/ \E c \in CallbackIds, token \in ExchangeTokens : CallbackTokens(c, token)
  \/ \E c \in CallbackIds : CallbackNoTokens(c)
  \/ \E c \in CallbackIds, e \in ExchangeErrors : CallbackExchangeFails(c, e)

SpecOAuth == InitDb /\ [][NextOAuth]_vars

\* one submission while credentials are stored and deleted: upsertToken with the
\* token objects of an exchange, deleteToken, at any point of the run
NextCred ==
  \/ RunnerStep("j1")
  \/ \E u \in UserIds, token \in ExchangeTokens : CallUpsertToken(u, token)
  \/ \E u \in UserIds : CallDeleteToken(u)

SpecCred == Init /\ [][NextCred]_vars

----------------------------------------------------------------------------
(* Claims about the db.js operations *)

\* C5: consumeState(token) returns the owner that began the flow on its first call
\* after the token's creation and null on every later call; for a token never
\* created it returns null
C5_ConsumeOnce ==
  \A s \in StateTokens :
    stateAudit[s].calls >= 1 =>
      /\ stateAudit[s].first = <<stateAudit[s].owner>>
      /\ stateAudit[s].later

C5_Witness ==
  /\ stateAudit["st1"].owner = <<"2">>
  /\ stateAudit["st1"].calls = 2
  /\ stateAudit["st2"].owner = <<>>
  /\ stateAudit["st2"].calls = 1

\* a property of a token object as the caller supplied it: absent reads as null
Supplied(x) == IF x = Undefined THEN NULL ELSE x

C7_StickyVideoIdPlainError ==
  \A id \in DOMAIN jobs :
    /\ jobAudit[id] # <<>>
    /\ jobAudit[id][1].sticky
    /\ jobAudit[id][1].last # <<>> =>
         jobs[id].error = Supplied(jobAudit[id][1].last[1].error)

\* the last call supplied neither: the video_id stored before is still there and
\* the error is cleared
C7_Witness ==
  /\ "j1" \in DOMAIN jobs
  /\ jobAudit["j1"][1].last = <<NoExtra>>
  /\ jobs["j1"].video_id = "v1"
  /\ jobs["j1"].error = NULL
  /\ jobs["j1"].status = "failed"

\* C15: createJob with an id that already has a row throws and leaves that row
\* (owner, source_url, status, timestamps, video_id, error) as it was; createJob
\* with a fresh id inserts a row whose created_at equals its updated_at
C15_DuplicateJobRejected ==
  \A id \in DOMAIN jobs :
    /\ jobAudit[id] # <<>>
    /\ jobAudit[id][1].dup # "changed"
    /\ jobAudit[id][1].last = <<>> =>
         /\ jobs[id].created_at = jobs[id].updated_at
         /\ jobs[id].video_id = NULL
         /\ jobs[id].error = NULL

\* a row created at time 1 and completed with a video_id at time 2 survived a
\* createJob call on its id
C15_Witness ==
  /\ "j1" \in DOMAIN jobs
  /\ jobAudit["j1"][1].dup = "kept"
  /\ jobs["j1"].status = "completed"
  /\ jobs["j1"].video_id = "v2"
  /\ jobs["j1"].created_at = 1
  /\ jobs["j1"].updated_at = 2

----------------------------------------------------------------------------
(* Claims about the account linking flow, checked under SpecOAuth *)

\* the callbacks that carried state s and got an owner from consumeState
Winners(s) == {c \in CallbackIds : cb[c].state = s /\ cb[c].owner # <<>>}

\* C20: of the callbacks that carry the same state token at most one gets the owner
\* from consumeState and goes on to the token exchange and upsertToken, every other
\* one fails with 'Invalid or expired state' and stores nothing; the step in which
\* a callback gets the owner is the step that removes the state row
C20_OneCallbackPerState ==
  [][/\ \A s \in StateTokens : Cardinality(Winners(s)') <= 1
     /\ \A c \in CallbackIds :
          /\ (cb'[c].pc # "idle" /\ cb'[c].owner = <<>>) =>
               /\ cb'[c].pc = "failed"
               /\ cb'[c].error = "Invalid or expired state"
               /\ cb'[c].linked = <<>>
          /\ cb'[c].pc \in {"exchanging", "linked"} => cb'[c].owner # <<>>
          /\ (cb[c].owner = <<>> /\ cb'[c].owner # <<>>) =>
               /\ cb'[c].state \in DOMAIN oauth_states
               /\ cb'[c].state \notin DOMAIN oauth_states'
               /\ cb'[c].owner = <<oauth_states[cb'[c].state].telegram_user_id>>
    ]_vars

\* two callbacks carried st1: the first linked the account of user 2, the second
\* was refused
C20_Witness ==
  /\ cb["c1"].state = "st1"
  /\ cb["c2"].state = "st1"
  /\ cb["c1"].pc = "linked"
  /\ cb["c1"].owner = <<"2">>
  /\ cb["c2"].pc = "failed"
  /\ cb["c2"].error = "Invalid or expired state"
  /\ "2" \in DOMAIN oauth_tokens

\* C21: a callback whose state was never issued or was already consumed fails with
\* an error and leaves every credential row and every pending state as it was; a
\* callback that succeeds writes the credential row of the owner createState
\* paired with its state and no other row; nothing else in the linking flow
\* writes a credential
C21_OnlyOwnerLinked ==
  [][/\ \A c \in CallbackIds :
          /\ (cb[c].pc = "idle" /\ cb'[c].pc # "idle"
                 /\ (cb'[c].state \notin issued
                       \/ cb'[c].state \notin DOMAIN oauth_states)) =>
               /\ cb'[c].pc = "failed"
               /\ cb'[c].error # ""
               /\ oauth_tokens' = oauth_tokens
               /\ oauth_states' = oauth_states
          /\ (cb[c].pc # "linked" /\ cb'[c].pc = "linked") =>
               LET paired == stateAudit[cb[c].state].owner
               IN /\ paired # <<>>
                  /\ cb'[c].linked = paired
                  /\ paired[1] \in DOMAIN oauth_tokens'
                  /\ oauth_tokens'[paired[1]].telegram_user_id = paired[1]
                  /\ DOMAIN oauth_tokens' = DOMAIN oauth_tokens \cup {paired[1]}
                  /\ \A k \in DOMAIN oauth_tokens \ {paired[1]} :
                       oauth_tokens'[k] = oauth_tokens[k]
     /\ oauth_tokens' # oauth_tokens =>
          \E c \in CallbackIds : cb[c].pc = "exchanging" /\ cb'[c].pc = "linked"
    ]_vars

\* the callback with st1, created for user 1, linked user 1 and nobody else; the
\* callback with st2, which was never issued, failed
C21_Witness ==
  /\ cb["c1"].pc = "linked"
  /\ cb["c1"].state = "st1"
  /\ stateAudit["st1"].owner = <<"1">>
  /\ DOMAIN oauth_tokens = {"1"}
  /\ cb["c2"].pc = "failed"
  /\ cb["c2"].state = "st2"
  /\ "st2" \notin issued

\* callback c got its owner from consumeState and its token exchange failed
ExchangeFailed(c) == cb[c].pc = "failed" /\ cb[c].owner # <<>>

\* C22: once a callback has consumed a state, the state row is gone whatever the
\* exchange then does; a failing exchange leaves the credential table as it was;
\* a later callback with the state of a failed exchange fails as invalid
C22_StateSpentOnFailure ==
  [][\A c \in CallbackIds :
       /\ cb'[c].owner # <<>> => cb'[c].state \notin DOMAIN oauth_states'
       /\ (cb[c].pc = "exchanging" /\ cb'[c].pc = "failed") =>
            /\ oauth_tokens' = oauth_tokens
            /\ oauth_states' = oauth_states
            /\ cb'[c].linked = <<>>
            /\ cb'[c].error \in ExchangeErrors \cup {"No tokens received"}
       /\ (cb[c].pc = "idle" /\ cb'[c].pc # "idle"
              /\ \E d \in CallbackIds \ {c} :
                    ExchangeFailed(d) /\ cb[d].state = cb'[c].state) =>
            /\ cb'[c].pc = "failed"
            /\ cb'[c].owner = <<>>
            /\ cb'[c].error = "Invalid or expired state"
            /\ oauth_tokens' = oauth_tokens
    ]_vars

\* the exchange of the first callback with st2 was rejected, the second callback
\* with st2 was refused, and nobody is linked
C22_Witness ==
  /\ cb["c1"].state = "st2"
  /\ cb["c1"].owner = <<"1">>
  /\ cb["c1"].pc = "failed"
  /\ cb["c1"].error = "invalid_grant"
  /\ cb["c2"].state = "st2"
  /\ cb["c2"].error = "Invalid or expired state"
  /\ DOMAIN oauth_tokens = {}
  /\ DOMAIN oauth_states = {}

----------------------------------------------------------------------------
(* Claims about the credential check of a run, checked under SpecCred *)

UploadWritten(j) == \E i \in 1..Len(written[j]) : written[j][i] = "uploading"

UploadInvoked(j) == \E i \in 1..Len(invoked[j]) : invoked[j][i] = "uploadVideoWithCaptions"

\* the credential check of run j found a row / found none
FoundCredential(j) == run[j].tokenAtAuth # <<>> /\ run[j].tokenAtAuth[1] # <<>>
FoundNoCredential(j) == run[j].tokenAtAuth = << <<>> >>

\* C23: the owner's credential is read once per job, when the four collaborators
\* before the upload have returned and before uploading is written, and what it
\* finds is the content of oauth_tokens at that moment, whatever upsertToken and
\* deleteToken did before or do after; with a credential found the job goes on to
\* the upload, with none found the upload is never invoked, uploading is never
\* written and the job ends failed
C23_CredentialReadOnce ==
  [][\A j \in JobIds :
       /\ run'[j].tokenAtAuth # run[j].tokenAtAuth =>
            /\ run[j].tokenAtAuth = <<>>
            /\ run'[j].tokenAtAuth = <<getToken(oauth_tokens, run[j].telegramUserId)>>
            /\ invoked[j] = SubSeq(Collaborators, 1, AuthAfter)
            /\ run[j].inFlight = {}
            /\ run[j].collabFailure = <<>>
            /\ ~UploadWritten(j)
       /\ UploadWritten(j)' => FoundCredential(j)'
       /\ FoundNoCredential(j)' =>
            /\ ~UploadInvoked(j)'
            /\ Finished(j)' =>
                 /\ jobs'[j].status = "failed"
                 /\ jobs'[j].error = NotLinkedMessage
       /\ (FoundCredential(j)' /\ Finished(j)') => UploadInvoked(j)'
    ]_vars

====
